---- MODULE Spec2Model ----
(***************************************************************************)
(* Model of the document converter: the AppComponent state machine         *)
(* (file selection, startConversion, simulateProgress, reset), the         *)
(* LocalConverterService (convert, formatOutput, processPDF, processEPUB,  *)
(* generateFile, createEPUB) and ParticleService.setProgress.              *)
(*                                                                         *)
(* JavaScript strings are modelled as sequences of UTF-16 code units       *)
(* (naturals); U("...") turns a literal into such a sequence.              *)
(***************************************************************************)
EXTENDS Integers, Sequences, FiniteSets, Bags, TLC

VARIABLES
    isProcessing,      \* AppComponent.isProcessing
    progress,          \* AppComponent.progress
    uploadedFile,      \* AppComponent.uploadedFile: <<>> is null, <<f>> holds f
    convertedContent,  \* AppComponent.convertedContent
    targetFormat,      \* AppComponent.targetFormat
    particleProgress,  \* ParticleService.progress
    conversions,       \* convert calls in flight (startConversion awaiting): a bag
    intervals,         \* number of live setInterval timers of simulateProgress
    lastOp,            \* history: the handler that ran last and what it returned
    staleReset,        \* history: reset ran with a convert in flight, no startConversion since
    fmtLog,            \* history: formatOutput calls made so far
    clock,             \* the wall clock read by new Date()
    pdf,               \* generateFile, PDF branch: the layout loop's locals
    epubIn,            \* processEPUB: the locals of one extraction
    zip                \* createEPUB: the archive under construction

vars == << isProcessing, progress, uploadedFile, convertedContent, targetFormat,
           particleProgress, conversions, intervals, lastOp,
           staleReset, fmtLog, clock, pdf, epubIn, zip >>

appVars == << isProcessing, progress, uploadedFile, convertedContent, targetFormat,
              particleProgress, conversions, intervals, lastOp,
              staleReset >>

(***************************************************************************)
(* Strings as sequences of UTF-16 code units.                              *)
(***************************************************************************)

\* The printable ASCII characters, code units 32..95 and 97..126 in order.
AsciiLow == " !\"#$%&'()*+,-./0123456789:;<=>?@ABCDEFGHIJKLMNOPQRSTUVWXYZ[\\]^_"

AsciiHigh == "abcdefghijklmnopqrstuvwxyz{|}~"

\* The code unit of a one-character literal.
CodeOf(c) ==
    IF c = "\n" THEN 10
    ELSE IF c = "\t" THEN 9
    ELSE IF c = "\r" THEN 13
    ELSE IF \E i \in 1..Len(AsciiLow) : SubSeq(AsciiLow, i, i) = c
         THEN 31 + (CHOOSE i \in 1..Len(AsciiLow) : SubSeq(AsciiLow, i, i) = c)
         ELSE 96 + (CHOOSE i \in 1..Len(AsciiHigh) : SubSeq(AsciiHigh, i, i) = c)

\* A literal as a sequence of code units.
U(s) == [i \in 1..Len(s) |-> CodeOf(SubSeq(s, i, i))]

RECURSIVE Concat(_)
\* Array.prototype.join with the empty separator: the concatenation of a sequence of strings.
Concat(ss) == IF ss = <<>> THEN <<>> ELSE Head(ss) \o Concat(Tail(ss))

\* String.prototype.startsWith
StartsWith(s, p) == Len(p) <= Len(s) /\ SubSeq(s, 1, Len(p)) = p

\* String.prototype.endsWith
EndsWith(s, p) == Len(p) <= Len(s) /\ SubSeq(s, Len(s) - Len(p) + 1, Len(s)) = p

\* String.prototype.includes
Includes(s, p) ==
    \E i \in 1..(Len(s) - Len(p) + 1) : SubSeq(s, i, i + Len(p) - 1) = p

\* String.prototype.toLowerCase on the code units the model uses (ASCII and
\* Latin-1 letters).
ToLowerUnit(c) ==
    IF (c >= 65 /\ c <= 90) \/ (c >= 192 /\ c <= 222 /\ c # 215) THEN c + 32 ELSE c

ToLowerCase(s) == [i \in 1..Len(s) |-> ToLowerUnit(s[i])]

\* The code units String.prototype.trim removes (WhiteSpace and LineTerminator).
IsWhiteSpace(c) ==
    c \in {9, 10, 11, 12, 13, 32, 160, 5760, 8232, 8233, 8239, 8287, 12288, 65279}
    \/ (c >= 8192 /\ c <= 8202)

RECURSIVE TrimStart(_)
TrimStart(s) ==
    IF s # <<>> /\ IsWhiteSpace(Head(s)) THEN TrimStart(Tail(s)) ELSE s

RECURSIVE TrimEnd(_)
TrimEnd(s) ==
    IF s # <<>> /\ IsWhiteSpace(s[Len(s)]) THEN TrimEnd(SubSeq(s, 1, Len(s) - 1)) ELSE s

\* String.prototype.trim
Trim(s) == TrimEnd(TrimStart(s))

RECURSIVE SplitFrom(_, _, _)
\* The pieces of s after position i, cur being the piece collected so far.
SplitFrom(s, sep, cur) ==
    IF s = <<>> THEN << cur >>
    ELSE IF Head(s) = sep THEN << cur >> \o SplitFrom(Tail(s), sep, <<>>)
    ELSE SplitFrom(Tail(s), sep, Append(cur, Head(s)))

\* String.prototype.split with a one-character separator.
Split(s, sep) == SplitFrom(s, sep, <<>>)

(***************************************************************************)
(* The string literals of the source.                                      *)
(***************************************************************************)

DataScheme == U("data:")

Base64Marker == U(";base64,")

Hyphen == U("-")

LetterT == U("T")

Colon == U(":")

FullStop == U(".")

LetterZ == U("Z")

EscQuote == U("\\\"")

EscBackslash == U("\\\\")

EscB == U("\\b")

EscF == U("\\f")

EscN == U("\\n")

EscR == U("\\r")

EscT == U("\\t")

EscU00 == U("\\u00")

DoubleQuote == U("\"")

EnvelopeOpen == U("{\n  \"generatedAt\": ")

EnvelopeContent == U(",\n  \"content\": ")

EnvelopeClose == U("\n}")

ParaOpen == U("<p>")

ParaClose == U("</p>")

DivOpen == U("<div class=\"converted-content\">\n")

DivClose == U("\n</div>")

PdfLibMessage == U("PDF.js library not correctly initialized.")

TwoNewlines == U("\n\n")

Space == U(" ")

SuffixXhtml == U(".xhtml")

SuffixHtml == U(".html")

SuffixHtm == U(".htm")

ReservedPrefix == U("__")

NavWord == U("nav")

TocWord == U("toc")

NoTextSentinel == U("Error: No text content extracted from EPUB.")

UndefinedText == U("undefined")

PdfMime == U("application/pdf")

EpubWord == U("epub")

SuffixEpub == U(".epub")

ErrorPrefix == U("PROCESSING ERROR: ")

UnknownError == U("Unknown error")

RECURSIVE Digits(_, _)
\* The decimal digits of n, zero-padded to width places (padStart(width, "0")).
Digits(n, width) ==
    IF width = 0 THEN <<>> ELSE Append(Digits(n \div 10, width - 1), 48 + (n % 10))

\* One hexadecimal digit, lower case, as JSON.stringify writes it.
HexDigit(n) == IF n < 10 THEN 48 + n ELSE 87 + n

(***************************************************************************)
(* The environment: the DOM File, FileReader.readAsDataURL, atob,          *)
(* TextDecoder and Date, as convert and handleFile use them.               *)
(***************************************************************************)

\* The base64 alphabet of btoa/atob and of data: URLs.
B64Table == U("ABCDEFGHIJKLMNOPQRSTUVWXYZabcdefghijklmnopqrstuvwxyz0123456789+/")

RECURSIVE B64Encode(_)
\* The base64 text FileReader.readAsDataURL writes for a byte sequence.
B64Encode(bytes) ==
    IF bytes = <<>> THEN <<>>
    ELSE IF Len(bytes) = 1 THEN
        << B64Table[(bytes[1] \div 4) + 1], B64Table[((bytes[1] % 4) * 16) + 1], 61, 61 >>
    ELSE IF Len(bytes) = 2 THEN
        << B64Table[(bytes[1] \div 4) + 1],
           B64Table[((bytes[1] % 4) * 16 + (bytes[2] \div 16)) + 1],
           B64Table[((bytes[2] % 16) * 4) + 1], 61 >>
    ELSE
        << B64Table[(bytes[1] \div 4) + 1],
           B64Table[((bytes[1] % 4) * 16 + (bytes[2] \div 16)) + 1],
           B64Table[((bytes[2] % 16) * 4 + (bytes[3] \div 64)) + 1],
           B64Table[(bytes[3] % 64) + 1] >> \o B64Encode(SubSeq(bytes, 4, Len(bytes)))

\* reader.result of readAsDataURL for a file of the given type and bytes.
DataURL(type, bytes) == DataScheme \o type \o Base64Marker \o B64Encode(bytes)

\* The six-bit value of a base64 character.
B64Value(c) == (CHOOSE i \in 1..64 : B64Table[i] = c) - 1

RECURSIVE B64Bytes(_)
\* The bytes of a sequence of six-bit values (trailing bits are dropped).
B64Bytes(v) ==
    IF Len(v) < 2 THEN <<>>
    ELSE IF Len(v) = 2 THEN << v[1] * 4 + (v[2] \div 16) >>
    ELSE IF Len(v) = 3 THEN << v[1] * 4 + (v[2] \div 16), (v[2] % 16) * 16 + (v[3] \div 4) >>
    ELSE << v[1] * 4 + (v[2] \div 16), (v[2] % 16) * 16 + (v[3] \div 4), (v[3] % 4) * 64 + v[4] >>
         \o B64Bytes(SubSeq(v, 5, Len(v)))

\* atob (forgiving-base64 decode): [ok |-> FALSE] is the InvalidCharacterError,
\* otherwise bytes holds the char codes of the binary string.
atob(str) ==
    LET noWs  == SelectSeq(str, LAMBDA c : c \notin {9, 10, 12, 13, 32})
        noPad == IF Len(noWs) % 4 = 0 /\ Len(noWs) >= 2 /\ noWs[Len(noWs)] = 61
                 THEN IF noWs[Len(noWs) - 1] = 61
                      THEN SubSeq(noWs, 1, Len(noWs) - 2)
                      ELSE SubSeq(noWs, 1, Len(noWs) - 1)
                 ELSE noWs
    IN  IF Len(noPad) % 4 = 1 \/ \E i \in 1..Len(noPad) : \A j \in 1..64 : B64Table[j] # noPad[i]
        THEN [ok |-> FALSE, bytes |-> <<>>]
        ELSE [ok |-> TRUE, bytes |-> B64Bytes([i \in 1..Len(noPad) |-> B64Value(noPad[i])])]

\* A code point as UTF-16 code units.
Utf16(cp) ==
    IF cp < 65536 THEN << cp >>
    ELSE << 55296 + ((cp - 65536) \div 1024), 56320 + ((cp - 65536) % 1024) >>

RECURSIVE Utf8Run(_, _, _, _, _, _)
\* The WHATWG UTF-8 decoder (error mode replacement): cp/needed/seen and the
\* bounds lo..hi of the next continuation byte are the decoder's state.
Utf8Run(bytes, cp, needed, seen, lo, hi) ==
    IF bytes = <<>> THEN (IF needed # 0 THEN << 65533 >> ELSE <<>>)
    ELSE LET b == Head(bytes) rest == Tail(bytes) IN
        IF needed = 0 THEN
            IF b <= 127 THEN << b >> \o Utf8Run(rest, 0, 0, 0, 128, 191)
            ELSE IF b >= 194 /\ b <= 223 THEN Utf8Run(rest, b % 32, 1, 0, 128, 191)
            ELSE IF b >= 224 /\ b <= 239 THEN
                Utf8Run(rest, b % 16, 2, 0, IF b = 224 THEN 160 ELSE 128, IF b = 237 THEN 159 ELSE 191)
            ELSE IF b >= 240 /\ b <= 244 THEN
                Utf8Run(rest, b % 8, 3, 0, IF b = 240 THEN 144 ELSE 128, IF b = 244 THEN 143 ELSE 191)
            ELSE << 65533 >> \o Utf8Run(rest, 0, 0, 0, 128, 191)
        ELSE IF b < lo \/ b > hi THEN << 65533 >> \o Utf8Run(bytes, 0, 0, 0, 128, 191)
        ELSE IF seen + 1 = needed
             THEN Utf16(cp * 64 + (b % 64)) \o Utf8Run(rest, 0, 0, 0, 128, 191)
             ELSE Utf8Run(rest, cp * 64 + (b % 64), needed, seen + 1, 128, 191)

\* new TextDecoder('utf-8').decode(bytes): a leading byte order mark is dropped.
TextDecode(bytes) ==
    LET out == Utf8Run(IF Len(bytes) >= 3 /\ SubSeq(bytes, 1, 3) = << 239, 187, 191 >>
                       THEN SubSeq(bytes, 4, Len(bytes)) ELSE bytes, 0, 0, 0, 128, 191)
    IN  out

\* The civil date of a day number (days since 1970-01-01), as Date computes it.
CivilFromDays(days) ==
    LET z   == days + 719468
        era == z \div 146097
        doe == z - era * 146097
        yoe == (doe - (doe \div 1460) + (doe \div 36524) - (doe \div 146096)) \div 365
        doy == doe - (365 * yoe + (yoe \div 4) - (yoe \div 100))
        mp  == (5 * doy + 2) \div 153
        m   == IF mp < 10 THEN mp + 3 ELSE mp - 9
    IN  [year  |-> yoe + era * 400 + (IF m <= 2 THEN 1 ELSE 0),
         month |-> m,
         day   |-> doy - ((153 * mp + 2) \div 5) + 1]

\* Date.prototype.toISOString of the time [day, ms]: day days after the epoch
\* and ms milliseconds into that day.
ToISOString(t) ==
    LET d == CivilFromDays(t.day) IN
    Digits(d.year, 4) \o Hyphen \o Digits(d.month, 2) \o Hyphen \o Digits(d.day, 2)
    \o LetterT \o Digits(t.ms \div 3600000, 2) \o Colon \o Digits((t.ms \div 60000) % 60, 2)
    \o Colon \o Digits((t.ms \div 1000) % 60, 2) \o FullStop \o Digits(t.ms % 1000, 3) \o LetterZ

\* QuoteJSONString of one code unit (lone surrogates are written as \uXXXX
\* only when unpaired; the model's texts hold no surrogates).
QuoteUnit(c) ==
    IF c = 34 THEN EscQuote
    ELSE IF c = 92 THEN EscBackslash
    ELSE IF c = 8 THEN EscB
    ELSE IF c = 12 THEN EscF
    ELSE IF c = 10 THEN EscN
    ELSE IF c = 13 THEN EscR
    ELSE IF c = 9 THEN EscT
    ELSE IF c < 32 THEN EscU00 \o << HexDigit(c \div 16), HexDigit(c % 16) >>
    ELSE << c >>

\* JSON.stringify of a string value.
QuoteJSONString(s) == DoubleQuote \o Concat([i \in 1..Len(s) |-> QuoteUnit(s[i])]) \o DoubleQuote

\* JSON.stringify({ generatedAt, content }, null, 2)
StringifyEnvelope(generatedAt, content) ==
    EnvelopeOpen \o QuoteJSONString(generatedAt)
    \o EnvelopeContent \o QuoteJSONString(content) \o EnvelopeClose

(***************************************************************************)
(* LocalConverterService: formatOutput, processPDF, processEPUB, convert.  *)
(***************************************************************************)

\* AppComponent.formats
Formats == { "Markdown", "Plain Text", "HTML", "JSON", "PDF", "EPUB" }

\* Array.prototype.join(sep)
RECURSIVE Join(_, _)
Join(ss, sep) ==
    IF ss = <<>> THEN <<>>
    ELSE IF Len(ss) = 1 THEN Head(ss)
    ELSE Head(ss) \o sep \o Join(Tail(ss), sep)

\* The HTML branch with the pieces joined by Array.join's default separator.
FormatHTML_CommaJoined(text) ==
    LET lines == Split(text, 10)
        para(l) == IF Trim(l) # <<>> THEN ParaOpen \o l \o ParaClose ELSE <<>>
    IN  DivOpen \o Join([i \in 1..Len(lines) |-> para(lines[i])], << 44 >>) \o DivClose

\* The HTML branch of formatOutput.
FormatHTML(text) ==
    LET lines == Split(text, 10)
        para(l) == IF Trim(l) # <<>> THEN ParaOpen \o l \o ParaClose ELSE <<>>
    IN  DivOpen
        \o Concat([i \in 1..Len(lines) |-> para(lines[i])])
        \o DivClose

\* formatOutput stamping the HTML container with the time as well.
formatOutput_StampedHTML(text, format, now) ==
    IF format = "JSON" THEN StringifyEnvelope(ToISOString(now), text)
    ELSE IF format = "PDF" \/ format = "EPUB" THEN text
    ELSE IF format = "HTML" THEN FormatHTML(text) \o ToISOString(now)
    ELSE text

\* formatOutput(text, format); now is what new Date() reads during the call.
formatOutput(text, format, now) ==
    IF format = "JSON" THEN StringifyEnvelope(ToISOString(now), text)
    ELSE IF format = "PDF" \/ format = "EPUB" THEN text
    ELSE IF format = "HTML" THEN FormatHTML(text)
    ELSE text

\* An Error: message is absent (hasMessage = FALSE) or a string.
Error(msg) == [hasMessage |-> TRUE, message |-> msg]

NoMessageError == [hasMessage |-> FALSE, message |-> <<>>]

\* processPDF on what PDF.js makes of the bytes: lib.kind is "noLib" (the
\* library object did not resolve), "fail" (getDocument, getPage or
\* getTextContent rejected with lib.err) or "ok" (lib.pages: per page the
\* str of its text items).  The result is the returned text or the thrown error.
processPDF(lib) ==
    IF lib.kind = "noLib"
    THEN [ok |-> FALSE, err |-> Error(PdfLibMessage)]
    ELSE IF lib.kind = "fail" THEN [ok |-> FALSE, err |-> lib.err]
    ELSE [ok |-> TRUE,
          value |-> Concat([i \in 1..Len(lib.pages) |-> TwoNewlines \o Join(lib.pages[i], Space)])]

\* The test of processEPUB on an entry name: the regular expression
\* /\.(xhtml|html|htm)$/i and the three exclusions.
IsContentDocument(filename) ==
    /\ \/ EndsWith(ToLowerCase(filename), SuffixXhtml)
       \/ EndsWith(ToLowerCase(filename), SuffixHtml)
       \/ EndsWith(ToLowerCase(filename), SuffixHtm)
    /\ ~StartsWith(filename, ReservedPrefix)
    /\ ~Includes(filename, NavWord)
    /\ ~Includes(filename, TocWord)

RECURSIVE LexCompare(_, _)
\* Lexicographic comparison of two sequences of weights: -1, 0 or 1.
LexCompare(x, y) ==
    IF x = <<>> /\ y = <<>> THEN 0
    ELSE IF x = <<>> THEN -1
    ELSE IF y = <<>> THEN 1
    ELSE IF Head(x) < Head(y) THEN -1
    ELSE IF Head(x) > Head(y) THEN 1
    ELSE LexCompare(Tail(x), Tail(y))

\* Punctuation in the order the default collation ranks it (before digits).
CollationPunctuation == U(" _-,;:!?.'\"()[]{}@*/\\&#%^+<=>|~$")

\* Canonical decomposition of the accented letters the model uses.
RECURSIVE Decompose(_)
Decompose(s) ==
    IF s = <<>> THEN <<>>
    ELSE IF Head(s) = 233 THEN << 101, 769 >> \o Decompose(Tail(s))
    ELSE IF Head(s) = 201 THEN << 69, 769 >> \o Decompose(Tail(s))
    ELSE << Head(s) >> \o Decompose(Tail(s))

\* Primary weight of a base character: punctuation < digits < letters, letters
\* without regard to case.
PrimaryWeight(c) ==
    IF c >= 48 /\ c <= 57 THEN 100 + (c - 48)
    ELSE IF c >= 97 /\ c <= 122 THEN 200 + (c - 97)
    ELSE IF c >= 65 /\ c <= 90 THEN 200 + (c - 65)
    ELSE IF \E i \in 1..Len(CollationPunctuation) : CollationPunctuation[i] = c
         THEN CHOOSE i \in 1..Len(CollationPunctuation) : CollationPunctuation[i] = c
    ELSE 300 + c

\* The collation key of a string: its primary weights, then its secondary
\* weights (accents), then its tertiary weights (lower case before upper case).
CollationKey(s) ==
    LET d      == Decompose(s)
        isBase(i) == d[i] # 769
        bases  == SelectSeq([i \in 1..Len(d) |-> i], isBase)
        accent(i) == IF i < Len(d) /\ d[i + 1] = 769 THEN 1 ELSE 0
    IN  [primary   |-> [k \in 1..Len(bases) |-> PrimaryWeight(d[bases[k]])],
         secondary |-> [k \in 1..Len(bases) |-> accent(bases[k])],
         tertiary  |-> [k \in 1..Len(bases) |-> IF d[bases[k]] >= 65 /\ d[bases[k]] <= 90 THEN 1 ELSE 0]]

\* String.prototype.localeCompare in the default locale: negative, zero or
\* positive.  Canonically equivalent strings compare equal.
localeCompare(a, b) ==
    LET ka == CollationKey(a) kb == CollationKey(b) IN
    IF LexCompare(ka.primary, kb.primary) # 0 THEN LexCompare(ka.primary, kb.primary)
    ELSE IF LexCompare(ka.secondary, kb.secondary) # 0 THEN LexCompare(ka.secondary, kb.secondary)
    ELSE LexCompare(ka.tertiary, kb.tertiary)

\* The comparator handed to htmlFiles.sort.
CompareFiles(a, b) == localeCompare(a.name, b.name)

RECURSIVE InsertSorted(_, _)
\* x placed behind every element that does not compare greater than it.
InsertSorted(sorted, x) ==
    IF sorted = <<>> THEN << x >>
    ELSE IF CompareFiles(Head(sorted), x) > 0 THEN << x >> \o sorted
    ELSE << Head(sorted) >> \o InsertSorted(Tail(sorted), x)

\* htmlFiles left in the order of the pushes.
SortFiles_NoSort(files) == files

RECURSIVE SortFiles(_)
\* Array.prototype.sort with CompareFiles: a stable sort.
SortFiles(files) ==
    IF files = <<>> THEN <<>>
    ELSE InsertSorted(SortFiles(SubSeq(files, 1, Len(files) - 1)), files[Len(files)])

\* The loop over the sorted htmlFiles and the return of processEPUB; md is the
\* Markdown Turndown makes of the file's body.
CombineText(htmlFiles) ==
    LET combinedText == Concat([i \in 1..Len(htmlFiles) |-> TwoNewlines \o htmlFiles[i].md])
    IN  IF combinedText # <<>> THEN combinedText
        ELSE NoTextSentinel

\* processEPUB on what JSZip makes of the bytes: lib.kind is "fail" (loadAsync,
\* a read, the parser or Turndown threw lib.err) or "ok": lib.files are the
\* entries in the order of Object.keys(loadedZip.files), lib.order the order in
\* which the reads of the content documents complete (indices into lib.files).
processEPUB(lib, format) ==
    IF lib.kind = "fail" THEN [ok |-> FALSE, err |-> lib.err]
    ELSE [ok |-> TRUE,
          value |-> CombineText(SortFiles([k \in 1..Len(lib.order) |-> lib.files[lib.order[k]]]))]

\* The completion orders processEPUB can see for the entries files.
CompletionOrders(files) ==
    LET sel == { i \in 1..Len(files) : IsContentDocument(files[i].name) }
    IN  { o \in [1..Cardinality(sel) -> sel] : \A i, j \in 1..Cardinality(sel) : i # j => o[i] # o[j] }

\* String(fileData.base64): base64 is <<>> when undefined, << s >> otherwise.
Base64Argument(base64) == IF base64 = <<>> THEN UndefinedText ELSE base64[1]

\* The dispatch with the test for EPUB made before the test for PDF.
Extractor_EpubFirst(fileData) ==
    IF Includes(fileData.type, EpubWord)
       \/ EndsWith(ToLowerCase(fileData.name), SuffixEpub) THEN "epub"
    ELSE IF fileData.type = PdfMime THEN "pdf"
    ELSE "text"

\* The if / else if / else of convert: the branch that extracts the content.
Extractor(fileData) ==
    IF fileData.type = PdfMime THEN "pdf"
    ELSE IF Includes(fileData.type, EpubWord)
            \/ EndsWith(ToLowerCase(fileData.name), SuffixEpub) THEN "epub"
    ELSE "text"

\* convert without its catch block: an extractor's error rejects the promise.
convert_NoCatch(fileData, format, lib) ==
    LET binary == atob(Base64Argument(fileData.base64))
        extractor == Extractor(fileData)
        content ==
            IF extractor = "pdf" THEN processPDF(lib.pdf)
            ELSE IF extractor = "epub" THEN processEPUB(lib.epub, format)
            ELSE [ok |-> TRUE, value |-> TextDecode(binary.bytes)]
    IN  IF ~binary.ok
        THEN [threw |-> TRUE, value |-> <<>>, extractor |-> "none", failed |-> FALSE,
              err |-> NoMessageError]
        ELSE IF content.ok
        THEN [threw |-> FALSE, value |-> formatOutput(content.value, format, lib.now),
              extractor |-> extractor, failed |-> FALSE, err |-> NoMessageError]
        ELSE [threw |-> TRUE, value |-> <<>>, extractor |-> extractor, failed |-> TRUE,
              err |-> content.err]

\* convert(fileData, targetFormat), format being targetFormat.  lib is what
\* the libraries and the clock give during the call.  threw: the returned
\* promise rejects (atob is called outside the try block); value: the string it
\* resolves to.  extractor, failed and err record which branch ran, whether it
\* threw and the error the catch block caught.
convert(fileData, format, lib) ==
    LET binary == atob(Base64Argument(fileData.base64))
        bytes  == binary.bytes
        extractor == Extractor(fileData)
        content ==
            IF extractor = "pdf" THEN processPDF(lib.pdf)
            ELSE IF extractor = "epub" THEN processEPUB(lib.epub, format)
            ELSE [ok |-> TRUE, value |-> TextDecode(bytes)]
    IN  IF ~binary.ok
        THEN [threw |-> TRUE, value |-> <<>>, extractor |-> "none", failed |-> FALSE,
              err |-> NoMessageError]
        ELSE IF content.ok
        THEN [threw |-> FALSE, value |-> formatOutput(content.value, format, lib.now),
              extractor |-> extractor, failed |-> FALSE, err |-> NoMessageError]
        ELSE [threw |-> FALSE,
              value |-> ErrorPrefix
                        \o (IF content.err.hasMessage /\ content.err.message # <<>>
                            THEN content.err.message ELSE UnknownError),
              extractor |-> extractor, failed |-> TRUE, err |-> content.err]

(***************************************************************************)
(* AppComponent.                                                           *)
(***************************************************************************)

\* The number of convert calls (and of progress timers) in flight at once.
MaxInFlight == 2

\* The files the user can select: DOM File objects, bytes being their content.
AppFiles ==
    { [name |-> U("e.md"),   type |-> <<>>,                 bytes |-> <<>>],
      [name |-> U("b.epub"), type |-> U("application/pdf"), bytes |-> << 37 >>],
      [name |-> U("c.EPUB"), type |-> U("application/zip"), bytes |-> << 80 >>] }

\* What the libraries can make of a file in the application model: PDF.js reads
\* kind, pages and err, JSZip and Turndown read kind, files, order and err.
AppOutcomes ==
    { [kind |-> "ok", pages |-> << << U("P") >> >>,
       files |-> << [name |-> U("c.html"), md |-> U("E")] >>, order |-> << 1 >>,
       err |-> NoMessageError],
      [kind |-> "fail", pages |-> <<>>, files |-> <<>>, order |-> <<>>,
       err |-> Error(U("Invalid PDF structure"))],
      [kind |-> "fail", pages |-> <<>>, files |-> <<>>, order |-> <<>>,
       err |-> NoMessageError],
      [kind |-> "noLib", pages |-> <<>>, files |-> <<>>, order |-> <<>>,
       err |-> NoMessageError] }

\* Everything a convert call takes from outside its arguments.
AppLibs == { [pdf |-> o, epub |-> o, now |-> clock] : o \in AppOutcomes }

\* reader.result for a file.  For an empty file browsers give either the data
\* URL with an empty payload or the bare "data:".
DataURLs(file) ==
    { DataURL(file.type, file.bytes) } \cup (IF file.bytes = <<>> THEN { DataScheme } ELSE {})

\* base64Raw.split(',')[1]: << s >>, or <<>> when there is no second piece.
Base64Data(base64Raw) ==
    LET pieces == Split(base64Raw, 44)
    IN  IF Len(pieces) >= 2 THEN << pieces[2] >> ELSE <<>>

\* Math.max
Max(a, b) == IF a >= b THEN a ELSE b

\* hasResult
hasResult == Len(convertedContent) > 0

\* ParticleService.setProgress(p), called by the effect of the constructor
\* with the value of the progress signal once the handler has written it.
setProgress(p) == particleProgress' = p

\* The variables of the other components.
otherVars == << fmtLog, clock, pdf, epubIn, zip >>

\* handleFile(file), its reader.onload callback included.
handleFile(file) ==
    /\ \E base64Raw \in DataURLs(file) :
         LET base64Data == Base64Data(base64Raw)
         IN  uploadedFile' = << [name |-> file.name, type |-> file.type, base64 |-> base64Data] >>
    /\ convertedContent' = <<>>
    /\ progress' = 0
    /\ setProgress(progress')
    /\ lastOp' = [op |-> "handleFile"]
    /\ UNCHANGED << isProcessing, targetFormat, conversions, intervals, staleReset >>
    /\ UNCHANGED otherVars

\* startConversion up to its await, simulateProgress included.
startConversion ==
    /\ BagCardinality(conversions) < MaxInFlight
    /\ intervals < MaxInFlight
    /\ IF uploadedFile = <<>>
       THEN /\ lastOp' = [op |-> "startConversion", started |-> FALSE]
            /\ UNCHANGED << isProcessing, progress, particleProgress, conversions, intervals >>
       ELSE /\ isProcessing' = TRUE
            /\ progress' = 1
            /\ setProgress(progress')
            /\ intervals' = intervals + 1
            /\ conversions' = conversions (+) SetToBag({ [file |-> uploadedFile[1],
                                                          format |-> targetFormat] })
            /\ lastOp' = [op |-> "startConversion", started |-> TRUE]
    /\ staleReset' = FALSE
    /\ UNCHANGED << uploadedFile, convertedContent, targetFormat >>
    /\ UNCHANGED otherVars

\* One run of the setInterval callback of simulateProgress.
tick ==
    /\ intervals > 0
    /\ IF ~isProcessing
       THEN /\ intervals' = intervals - 1
            /\ progress' = IF hasResult THEN 100 ELSE 0
       ELSE /\ intervals' = intervals
            /\ \E random \in 0..4 :
                 progress' = IF progress >= 98 THEN progress ELSE progress + Max(2, random)
    /\ setProgress(progress')
    /\ lastOp' = [op |-> "tick"]
    /\ UNCHANGED << isProcessing, uploadedFile, convertedContent, targetFormat,
                    conversions, staleReset >>
    /\ UNCHANGED otherVars

\* The rest of startConversion once the convert call c has settled.
convertSettled(c) ==
    /\ BagIn(c, conversions)
    /\ \E lib \in AppLibs :
         LET result == convert(c.file, c.format, lib)
         IN  /\ IF ~result.threw
                THEN /\ convertedContent' = result.value
                     /\ progress' = 100
                ELSE /\ convertedContent' = convertedContent
                     /\ progress' = 0
             /\ lastOp' = [op |-> "convertSettled", call |-> c, result |-> result]
    /\ isProcessing' = FALSE
    /\ setProgress(progress')
    /\ conversions' = conversions (-) SetToBag({ c })
    /\ UNCHANGED << uploadedFile, targetFormat, intervals, staleReset >>
    /\ UNCHANGED otherVars

\* reset() without the line that clears convertedContent.
reset_KeepsPreview ==
    /\ uploadedFile' = <<>>
    /\ convertedContent' = convertedContent
    /\ progress' = 0
    /\ isProcessing' = FALSE
    /\ setProgress(progress')
    /\ lastOp' = [op |-> "reset", hadFile |-> uploadedFile # <<>>, hadResult |-> hasResult,
                   inFlight |-> conversions # EmptyBag]
    /\ staleReset' = (conversions # EmptyBag)
    /\ UNCHANGED << targetFormat, conversions, intervals >>
    /\ UNCHANGED otherVars

\* reset()
reset ==
    /\ uploadedFile' = <<>>
    /\ convertedContent' = <<>>
    /\ progress' = 0
    /\ isProcessing' = FALSE
    /\ setProgress(progress')
    /\ lastOp' = [op |-> "reset", hadFile |-> uploadedFile # <<>>, hadResult |-> hasResult,
                   inFlight |-> conversions # EmptyBag]
    /\ staleReset' = (conversions # EmptyBag)
    /\ UNCHANGED << targetFormat, conversions, intervals >>
    /\ UNCHANGED otherVars

\* The time the model starts at: 2026-11-06T23:59:59.998Z.
StartTime == [day |-> 20763, ms |-> 86399998]

\* The state after construction of the services and the component.
InitApp ==
    /\ isProcessing = FALSE
    /\ progress = 0
    /\ uploadedFile = <<>>
    /\ convertedContent = <<>>
    /\ targetFormat = "Markdown"
    /\ particleProgress = 0
    /\ conversions = EmptyBag
    /\ intervals = 0
    /\ lastOp = [op |-> "init"]
    /\ staleReset = FALSE

InitOther ==
    /\ fmtLog = {}
    /\ clock = StartTime
    /\ pdf = [pc |-> "idle"]
    /\ epubIn = [pc |-> "idle"]
    /\ zip = [pc |-> "idle"]

Init == InitApp /\ InitOther

Next ==
    \/ \E file \in AppFiles : handleFile(file)
    \/ startConversion
    \/ tick
    \/ \E c \in BagToSet(conversions) : convertSettled(c)
    \/ reset

Spec == Init /\ [][Next]_vars

\* The runs in which reset is never called.
NextNoReset ==
    \/ \E file \in AppFiles : handleFile(file)
    \/ startConversion
    \/ tick
    \/ \E c \in BagToSet(conversions) : convertSettled(c)

SpecNoReset == Init /\ [][NextNoReset]_vars

(***************************************************************************)
(* formatOutput called on its own (specification SpecFmt): the arguments   *)
(* are fixed by the initial state, the calls are made at the times the     *)
(* clock reads, and fmtLog keeps what each call returned.                  *)
(***************************************************************************)

\* Bounds of the formatter model.
MaxTextLen == 3

MaxClockTicks == 2

MaxCalls == 2

\* The code units the generated texts are made of: h, space, newline, <.
FmtAlphabet == { 104, 32, 10, 60 }

RECURSIVE StringsUpTo(_, _)
\* The strings over alphabet of length at most n.
StringsUpTo(alphabet, n) ==
    IF n = 0 THEN { <<>> }
    ELSE LET shorter == StringsUpTo(alphabet, n - 1)
         IN  shorter \cup { Append(t, c) : t \in shorter, c \in alphabet }

\* The texts formatOutput is called on.
FmtTexts ==
    StringsUpTo(FmtAlphabet, MaxTextLen)
    \cup { U("hello\nworld"), U("a\"b\\c\td"), U(" x \n\n\t\ny") }

\* The clock advanced by one millisecond.
NextMillisecond(t) ==
    IF t.ms = 86399999 THEN [day |-> t.day + 1, ms |-> 0] ELSE [day |-> t.day, ms |-> t.ms + 1]

\* The milliseconds from StartTime to t.
Elapsed(t) == (t.day - StartTime.day) * 86400000 + (t.ms - StartTime.ms)

InitFmt ==
    /\ InitApp
    /\ fmtLog \in [text : FmtTexts, format : Formats, calls : { <<>> }]
    /\ clock = StartTime
    /\ pdf = [pc |-> "idle"]
    /\ epubIn = [pc |-> "idle"]
    /\ zip = [pc |-> "idle"]

\* Time passes.
ClockTick ==
    /\ Elapsed(clock) < MaxClockTicks
    /\ clock' = NextMillisecond(clock)
    /\ UNCHANGED << fmtLog, pdf, epubIn, zip >>
    /\ UNCHANGED appVars

\* One call formatOutput(text, format).
FormatCall ==
    /\ Len(fmtLog.calls) < MaxCalls
    /\ fmtLog' = [fmtLog EXCEPT !.calls =
                     Append(@, [now |-> clock,
                                out |-> formatOutput(fmtLog.text, fmtLog.format, clock)])]
    /\ UNCHANGED << clock, pdf, epubIn, zip >>
    /\ UNCHANGED appVars

NextFmt == ClockTick \/ FormatCall

SpecFmt == InitFmt /\ [][NextFmt]_vars

(***************************************************************************)
(* generateFile, PDF branch (specification SpecPdf).  Lengths are in the   *)
(* unit of new jsPDF(), millimetres.  The page is the default A4 page,     *)
(* 841.89 points high, the point being 25.4/72 mm: its height in mm is     *)
(* PageHeightNum / PageHeightDen = 297.0000833...                          *)
(***************************************************************************)

\* The number of lines splitTextToSize can return in the model.
MaxLines == 90

\* doc.internal.pageSize.getHeight() as the fraction PageHeightNum / PageHeightDen.
PageHeightNum == 21384006

PageHeightDen == 72000

\* const margin = 15
margin == 15

\* The y the title is drawn at.
TitleY == 20

\* let cursorY = 30
FirstLineY == 30

\* cursorY = 20 after doc.addPage()
NewPageY == 20

\* cursorY += 6
LineHeight == 6

\* The test of the loop with the margin left out.
BeyondBottom_NoMargin(cursorY) == cursorY * PageHeightDen > PageHeightNum

\* cursorY > pageHeight - margin
BeyondBottom(cursorY) == cursorY * PageHeightDen > PageHeightNum - margin * PageHeightDen

InitPdf ==
    /\ InitApp
    /\ fmtLog = {}
    /\ clock = StartTime
    /\ pdf = [pc |-> "idle"]
    /\ epubIn = [pc |-> "idle"]
    /\ zip = [pc |-> "idle"]

\* generateFile(content, 'PDF', title) up to the loop: the document is made,
\* the title drawn and the content split into lines lines.
PdfBegin(lines) ==
    /\ pdf.pc = "idle"
    /\ pdf' = [pc |-> "loop", lines |-> lines, i |-> 0, cursorY |-> FirstLineY, pages |-> 1,
               drawn |-> << [kind |-> "title", page |-> 1, y |-> TitleY] >>]
    /\ UNCHANGED << fmtLog, clock, epubIn, zip >>
    /\ UNCHANGED appVars

\* One iteration of the for loop.
PdfLine ==
    /\ pdf.pc = "loop"
    /\ pdf.i < pdf.lines
    /\ LET break == BeyondBottom(pdf.cursorY)
           page  == IF break THEN pdf.pages + 1 ELSE pdf.pages
           y     == IF break THEN NewPageY ELSE pdf.cursorY
       IN  pdf' = [pdf EXCEPT !.pages = page,
                              !.drawn = Append(@, [kind |-> "line", page |-> page, y |-> y]),
                              !.cursorY = y + LineHeight,
                              !.i = @ + 1]
    /\ UNCHANGED << fmtLog, clock, epubIn, zip >>
    /\ UNCHANGED appVars

\* The loop is left and doc.output('blob') returned.
PdfOutput ==
    /\ pdf.pc = "loop"
    /\ pdf.i = pdf.lines
    /\ pdf' = [pdf EXCEPT !.pc = "done"]
    /\ UNCHANGED << fmtLog, clock, epubIn, zip >>
    /\ UNCHANGED appVars

NextPdf ==
    \/ \E lines \in 0..MaxLines : PdfBegin(lines)
    \/ PdfLine
    \/ PdfOutput

SpecPdf == InitPdf /\ [][NextPdf]_vars

(***************************************************************************)
(* processEPUB step by step (specification SpecEpubIn): the reads of the   *)
(* content documents are started together and complete in any order.       *)
(***************************************************************************)

\* The number of entries of an archive in the model.
MaxEntries == 3

\* The entry paths archives are made of.  The last two are canonically
\* equivalent: e with acute accent as one code unit and as e followed by the
\* combining accent.
EpubPaths ==
    { U("a.html"), U("B.html"), U("b_1.htm"), U("b1.htm"), U("nav.xhtml"), U("toc.html"),
      U("__m.html"), U("c.css"), << 233 >> \o U(".html"), << 101, 769 >> \o U(".html") }

\* The sequences of at most n different elements of set.
Arrangements(set, n) ==
    { t \in UNION { [1..k -> set] : k \in 0..n } :
        \A a, b \in DOMAIN t : a # b => t[a] # t[b] }

\* The archives: Object.keys(loadedZip.files) in its order, each entry with the
\* Markdown Turndown makes of it (here: a heading naming the entry).
Archives ==
    { [k \in 1..Len(names) |-> [name |-> names[k], md |-> << 35 >> \o names[k]]] :
        names \in Arrangements(EpubPaths, MaxEntries) }

InitEpubIn ==
    /\ InitApp
    /\ fmtLog = {}
    /\ clock = StartTime
    /\ pdf = [pc |-> "idle"]
    /\ epubIn \in [pc : { "load" }, files : Archives, reading : { {} }, htmlFiles : { <<>> },
                   pushed : { <<>> }, out : { <<>> }]
    /\ zip = [pc |-> "idle"]

\* loadAsync has resolved and the map callbacks have run up to their await:
\* the read of every content document is under way.
EpubStartReads ==
    /\ epubIn.pc = "load"
    /\ epubIn' = [epubIn EXCEPT
                    !.pc = "reading",
                    !.reading = { k \in 1..Len(epubIn.files) :
                                    IsContentDocument(epubIn.files[k].name) }]
    /\ UNCHANGED << fmtLog, clock, pdf, zip >>
    /\ UNCHANGED appVars

\* The read of entry k completes: htmlFiles.push.
EpubReadDone(k) ==
    /\ epubIn.pc = "reading"
    /\ k \in epubIn.reading
    /\ epubIn' = [epubIn EXCEPT !.reading = @ \ { k },
                                !.htmlFiles = Append(@, epubIn.files[k])]
    /\ UNCHANGED << fmtLog, clock, pdf, zip >>
    /\ UNCHANGED appVars

\* Promise.all has resolved: the sort, the loop over htmlFiles and the return.
\* pushed keeps the paths in the order the reads completed.
EpubCombine ==
    /\ epubIn.pc = "reading"
    /\ epubIn.reading = {}
    /\ LET sorted == SortFiles(epubIn.htmlFiles)
       IN  epubIn' = [epubIn EXCEPT !.pc = "done",
                                    !.pushed = [k \in 1..Len(epubIn.htmlFiles) |->
                                                  epubIn.htmlFiles[k].name],
                                    !.htmlFiles = sorted,
                                    !.out = CombineText(sorted)]
    /\ UNCHANGED << fmtLog, clock, pdf, zip >>
    /\ UNCHANGED appVars

NextEpubIn ==
    \/ EpubStartReads
    \/ \E k \in 1..MaxEntries : EpubReadDone(k)
    \/ EpubCombine

SpecEpubIn == InitEpubIn /\ [][NextEpubIn]_vars

(***************************************************************************)
(* convert on a wide range of uploads (specification SpecConvert).         *)
(***************************************************************************)

\* The length of the files' contents.
MaxBytes == 2

\* The declared types, names and bytes of the files.
ConvTypes ==
    { U("application/pdf"), U("application/epub+zip"), U("application/EPUB+ZIP"),
      U("application/x-pdf"), U("APPLICATION/PDF"), U("text/plain"), <<>> }

ConvNames ==
    { U("a.epub"), U("b.EPUB"), U("c.epub.txt"), U("d.pdf"), U("e.md"), U("epub") }

ConvBytes == StringsUpTo({ 104, 195, 169 }, MaxBytes)

ConvFiles == [name : ConvNames, type : ConvTypes, bytes : ConvBytes]

\* The state after handleFile has stored a file and the user has picked a
\* target format; lastOp keeps the file as it was selected.
InitConvert ==
    /\ isProcessing = FALSE
    /\ progress = 0
    /\ \E file \in ConvFiles :
         /\ uploadedFile = << [name |-> file.name, type |-> file.type,
                               base64 |-> Base64Data(DataURL(file.type, file.bytes))] >>
         /\ lastOp = [op |-> "handleFile", file |-> file]
    /\ convertedContent = <<>>
    /\ targetFormat \in Formats
    /\ particleProgress = 0
    /\ conversions = EmptyBag
    /\ intervals = 0
    /\ staleReset = FALSE
    /\ InitOther

\* One call convert(uploadedFile, targetFormat).
ConvertCall ==
    /\ lastOp.op = "handleFile"
    /\ \E lib \in AppLibs :
         lastOp' = [op |-> "convert", file |-> lastOp.file,
                    result |-> convert(uploadedFile[1], targetFormat, lib)]
    /\ UNCHANGED << isProcessing, progress, uploadedFile, convertedContent, targetFormat,
                    particleProgress, conversions, intervals, staleReset >>
    /\ UNCHANGED otherVars

NextConvert == ConvertCall

SpecConvert == InitConvert /\ [][NextConvert]_vars

(***************************************************************************)
(* generateFile for the EPUB format and createEPUB (specification          *)
(* SpecEpubOut).  A JSZip object is the sequence of its entries in the     *)
(* order they were added, which is the order generateAsync writes them in. *)
(***************************************************************************)

\* The length of the contents written to an EPUB.
MaxContentLen == 2

RECURSIVE ReplaceAll(_, _, _)
\* String.prototype.replace with a global one-character pattern.
ReplaceAll(s, unit, replacement) ==
    IF s = <<>> THEN <<>>
    ELSE (IF Head(s) = unit THEN replacement ELSE << Head(s) >>)
         \o ReplaceAll(Tail(s), unit, replacement)

\* title.replace(/\.[^/.]+$/, ""): the last full stop and what follows it are
\* removed when what follows is not empty and holds no slash.
RemoveExtension(title) ==
    LET stops == { k \in 1..Len(title) : title[k] = 46 }
    IN  IF stops = {} THEN title
        ELSE LET last == CHOOSE k \in stops : \A j \in stops : j <= k
             IN  IF last < Len(title) /\ \A j \in (last + 1)..Len(title) : title[j] # 47
                 THEN SubSeq(title, 1, last - 1)
                 ELSE title

RECURSIVE Decimal(_)
\* The decimal digits of a natural number.
Decimal(n) == IF n < 10 THEN << 48 + n >> ELSE Append(Decimal(n \div 10), 48 + (n % 10))

\* String(Date.now()) at time t: the milliseconds since the epoch, written as
\* the hundreds of seconds followed by the five digits below them.
DateNow(t) == Decimal(t.day * 864 + t.ms \div 100000) \o Digits(t.ms % 100000, 5)

MimetypeName == U("mimetype")
MimetypeData == U("application/epub+zip")
ContainerName == U("META-INF/container.xml")
ContentName == U("OEBPS/content.xhtml")
OpfName == U("OEBPS/content.opf")
NcxName == U("OEBPS/toc.ncx")
EscAmp == U("&amp;")
EscLt == U("&lt;")
EscGt == U("&gt;")
LineBreak == U("<br/>")

\* The container descriptor.
ContainerXml ==
    U("<?xml version=\"1.0\"?>\n")
    \o U("<container version=\"1.0\" xmlns=\"urn:oasis:names:tc:opendocument:xmlns:container\">\n")
    \o U("   <rootfiles>\n")
    \o U("      <rootfile full-path=\"OEBPS/content.opf\" media-type=\"application/oebps-package+xml\"/>\n")
    \o U("   </rootfiles>\n")
    \o U("</container>")

\* The pieces of the template literals of createEPUB between their substitutions.
ContentXhtmlPart1 ==
    U("<?xml version=\"1.0\" encoding=\"UTF-8\" standalone=\"no\"?>\n")
    \o U("<!DOCTYPE html>\n")
    \o U("<html xmlns=\"http://www.w3.org/1999/xhtml\">\n")
    \o U("<head><title>")

ContentXhtmlPart2 ==
    U("</title></head>\n")
    \o U("<body>\n")
    \o U("<h1>")

ContentXhtmlPart3 ==
    U("</h1>\n")
    \o U("<div style=\"white-space: pre-wrap;\">")

ContentXhtmlPart4 ==
    U("</div>\n")
    \o U("</body>\n")
    \o U("</html>")

OpfContentPart1 ==
    U("<?xml version=\"1.0\" encoding=\"UTF-8\"?>\n")
    \o U("<package xmlns=\"http://www.idpf.org/2007/opf\" unique-identifier=\"BookId\" version=\"2.0\">\n")
    \o U("    <metadata xmlns:dc=\"http://purl.org/dc/elements/1.1/\">\n")
    \o U("        <dc:title>")

OpfContentPart2 ==
    U("</dc:title>\n")
    \o U("        <dc:language>en</dc:language>\n")
    \o U("        <dc:identifier id=\"BookId\">urn:uuid:")

OpfContentPart3 ==
    U("</dc:identifier>\n")
    \o U("    </metadata>\n")
    \o U("    <manifest>\n")
    \o U("        <item id=\"ncx\" href=\"toc.ncx\" media-type=\"application/x-dtbncx+xml\"/>\n")
    \o U("        <item id=\"content\" href=\"content.xhtml\" media-type=\"application/xhtml+xml\"/>\n")
    \o U("    </manifest>\n")
    \o U("    <spine toc=\"ncx\">\n")
    \o U("        <itemref idref=\"content\"/>\n")
    \o U("    </spine>\n")
    \o U("</package>")

TocNcxPart1 ==
    U("<?xml version=\"1.0\" encoding=\"UTF-8\"?>\n")
    \o U("<ncx xmlns=\"http://www.daisy.org/z3986/2005/ncx/\" version=\"2005-1\">\n")
    \o U("    <head><meta name=\"dtb:uid\" content=\"urn:uuid:")

TocNcxPart2 ==
    U("\"/></head>\n")
    \o U("    <docTitle><text>")

TocNcxPart3 ==
    U("</text></docTitle>\n")
    \o U("    <navMap>\n")
    \o U("        <navPoint id=\"navPoint-1\" playOrder=\"1\">\n")
    \o U("            <navLabel><text>Start</text></navLabel>\n")
    \o U("            <content src=\"content.xhtml\"/>\n")
    \o U("        </navPoint>\n")
    \o U("    </navMap>\n")
    \o U("</ncx>")

\* cleanContent
CleanContent(content) ==
    ReplaceAll(ReplaceAll(ReplaceAll(ReplaceAll(content, 38, EscAmp), 60, EscLt), 62, EscGt),
               10, LineBreak)

ContentXhtml(title, cleanContent) ==
    ContentXhtmlPart1 \o title \o ContentXhtmlPart2 \o title \o ContentXhtmlPart3
    \o cleanContent \o ContentXhtmlPart4

\* opfContent
OpfContent(title, now) ==
    OpfContentPart1 \o title \o OpfContentPart2 \o now \o OpfContentPart3

TocNcx(title, now) ==
    TocNcxPart1 \o now \o TocNcxPart2 \o title \o TocNcxPart3

\* The first argument of zip.file up to its last slash: the folder of the entry.
ParentFolder(name) ==
    LET slashes == { k \in 1..Len(name) : name[k] = 47 }
    IN  IF slashes = {} THEN <<>>
        ELSE SubSeq(name, 1, CHOOSE k \in slashes : \A j \in slashes : j <= k)

\* zip.file(name, data, options) on the entries files.  With createFolders the
\* library first adds an entry for the folder of name unless there is one; an
\* entry of the same name is replaced where it stands.
ZipFile(files, name, data, compression, createFolders) ==
    LET folder == ParentFolder(name)
        withFolder ==
            IF createFolders /\ folder # <<>> /\ \A k \in 1..Len(files) : files[k].name # folder
            THEN Append(files, [name |-> folder, dir |-> TRUE, data |-> <<>>,
                                compression |-> "default"])
            ELSE files
        entry == [name |-> name, dir |-> FALSE, data |-> data, compression |-> compression]
    IN  IF \E k \in 1..Len(withFolder) : withFolder[k].name = name
        THEN [k \in 1..Len(withFolder) |->
                 IF withFolder[k].name = name THEN entry ELSE withFolder[k]]
        ELSE Append(withFolder, entry)

\* The calls of zip.file with the container descriptor added before mimetype.
ZipCalls_ContainerFirst(title, content, now1, now2) ==
    << [name |-> ContainerName, data |-> ContainerXml, compression |-> "default"],
       [name |-> MimetypeName, data |-> MimetypeData, compression |-> "STORE"],
       [name |-> ContentName, data |-> ContentXhtml(title, CleanContent(content)),
        compression |-> "default"],
       [name |-> OpfName, data |-> OpfContent(title, DateNow(now1)), compression |-> "default"],
       [name |-> NcxName, data |-> TocNcx(title, DateNow(now2)), compression |-> "default"] >>

\* The calls of zip.file createEPUB makes, in their order; now1 and now2 are
\* the times of the two calls of Date.now().
ZipCalls(title, content, now1, now2) ==
    << [name |-> MimetypeName, data |-> MimetypeData, compression |-> "STORE"],
       [name |-> ContainerName, data |-> ContainerXml, compression |-> "default"],
       [name |-> ContentName, data |-> ContentXhtml(title, CleanContent(content)),
        compression |-> "default"],
       [name |-> OpfName, data |-> OpfContent(title, DateNow(now1)), compression |-> "default"],
       [name |-> NcxName, data |-> TocNcx(title, DateNow(now2)), compression |-> "default"] >>

RECURSIVE AddAll(_, _, _)
\* The entries of the JSZip object after the calls, files being those before.
AddAll(files, calls, createFolders) ==
    IF calls = <<>> THEN files
    ELSE AddAll(ZipFile(files, Head(calls).name, Head(calls).data, Head(calls).compression,
                        createFolders),
                Tail(calls), createFolders)

\* createEPUB(title, content): the entries of the archive generateAsync writes.
createEPUB(title, content, now1, now2, createFolders) ==
    AddAll(<<>>, ZipCalls(title, content, now1, now2), createFolders)

\* The names the download can have and the contents it is made of.
EpubTitles ==
    { U("nebula_doc"), U("book.epub"), U("a.b.txt"), U("notes."), U(".md"), U("v1.2/readme") }

EpubContents ==
    StringsUpTo({ 38, 60, 62, 10, 104 }, MaxContentLen) \cup { U("a<b>&c\n&amp;") }

\* createFolders is the default of the JSZip build, which the source does not
\* set: either value.
InitEpubOut ==
    /\ InitApp
    /\ fmtLog = {}
    /\ clock = StartTime
    /\ pdf = [pc |-> "idle"]
    /\ epubIn = [pc |-> "idle"]
    /\ zip \in [pc : { "idle" }, title : EpubTitles, content : EpubContents,
                createFolders : BOOLEAN, safeTitle : { <<>> }, archive : { <<>> }]

\* generateFile(content, "EPUB", title) to the end of createEPUB.  The second
\* call of Date.now() can fall into the next millisecond.
GenerateEpub ==
    /\ zip.pc = "idle"
    /\ \E now2 \in { clock, NextMillisecond(clock) } :
         LET safeTitle == RemoveExtension(zip.title)
         IN  /\ zip' = [zip EXCEPT
                          !.pc = "done",
                          !.safeTitle = safeTitle,
                          !.archive = createEPUB(safeTitle, zip.content, clock, now2,
                                                 zip.createFolders)]
             /\ clock' = now2
    /\ UNCHANGED << fmtLog, pdf, epubIn >>
    /\ UNCHANGED appVars

NextEpubOut == GenerateEpub

SpecEpubOut == InitEpubOut /\ [][NextEpubOut]_vars

(***************************************************************************)
(* Properties of the application state machine (specification Spec).       *)
(***************************************************************************)

\* C1: once reset has run with a convert call in flight, and until the next
\* startConversion, the preview text is empty in every state, also after the
\* stale call has returned.
C1_StaleResultDiscarded == staleReset => convertedContent = <<>>

\* The text the catch block of convert makes of an error.
ErrorText(err) ==
    ErrorPrefix \o (IF err.hasMessage /\ err.message # <<>> THEN err.message ELSE UnknownError)

\* C2: when the selected extractor has failed, convert has not thrown, the
\* preview text is "PROCESSING ERROR: " followed by the message (or by
\* "Unknown error"), and the run has ended as a success does: isProcessing
\* false, progress 100.
C2_ErrorBecomesPreview ==
    (lastOp.op = "convertSettled" /\ lastOp.result.failed) =>
        /\ ~lastOp.result.threw
        /\ convertedContent = ErrorText(lastOp.result.err)
        /\ isProcessing = FALSE
        /\ progress = 100

\* C2 happens: an extractor threw an error without a message, and one with a message.
C2_Witness ==
    /\ lastOp.op = "convertSettled"
    /\ lastOp.result.failed
    /\ ~lastOp.result.err.hasMessage
    /\ lastOp.result.extractor = "epub"
    /\ convertedContent = ErrorPrefix \o UnknownError

\* C3: the state right after reset holds no file, no preview text, progress 0
\* and isProcessing false.
C3_ResetClearsAll ==
    lastOp.op = "reset" =>
        /\ uploadedFile = <<>>
        /\ convertedContent = <<>>
        /\ progress = 0
        /\ isProcessing = FALSE

\* C3 happens: reset ran on a state with a file, a preview text and a convert
\* call in flight.
C3_Witness ==
    /\ lastOp.op = "reset"
    /\ lastOp.hadFile
    /\ lastOp.hadResult
    /\ lastOp.inFlight

\* C4: the progress handed to the visualization is within 0..100.
C4_ProgressInRange == particleProgress \in 0..100

(***************************************************************************)
(* Properties of formatOutput (specification SpecFmt).                     *)
(***************************************************************************)

\* C5 as stated: any two calls of formatOutput with the same text and format
\* return the same string, whatever the clock reads at each call.
C5_SameArgumentsSameOutput ==
    \A i, j \in 1..Len(fmtLog.calls) : fmtLog.calls[i].out = fmtLog.calls[j].out

\* C5 amended: for every format other than JSON two calls with the same
\* arguments return the same string whatever the clock reads; for JSON they
\* return the same string exactly when the clock reads the same millisecond at
\* both calls.
C5_DeterministicExceptTimestamp ==
    \A i, j \in 1..Len(fmtLog.calls) :
        LET a == fmtLog.calls[i] b == fmtLog.calls[j] IN
        /\ fmtLog.format # "JSON" => a.out = b.out
        /\ fmtLog.format = "JSON" => (a.out = b.out <=> a.now = b.now)

\* C5 happens: a format other than JSON was applied twice at different times.
C5_Witness ==
    /\ fmtLog.format = "HTML"
    /\ Len(fmtLog.calls) = 2
    /\ fmtLog.calls[1].now # fmtLog.calls[2].now

\* The lines of a text that are not blank after trimming.
NonBlankLines(text) == SelectSeq(Split(text, 10), LAMBDA l : Trim(l) # <<>>)

RECURSIVE Paragraphs(_)
\* Each line in one <p>...</p> element, nothing between the elements.
Paragraphs(lines) ==
    IF lines = <<>> THEN <<>>
    ELSE ParaOpen \o Head(lines) \o ParaClose \o Paragraphs(Tail(lines))

RECURSIVE TotalLen(_)
TotalLen(lines) == IF lines = <<>> THEN 0 ELSE Len(Head(lines)) + TotalLen(Tail(lines))

\* The number of <p> elements formatOutput put into out for text.
ParagraphCount(text, out) ==
    (Len(out) - Len(DivOpen) - Len(DivClose) - TotalLen(NonBlankLines(text)))
        \div (Len(ParaOpen) + Len(ParaClose))

\* C9: for HTML the output is the container around one <p> element per line
\* that is non-blank after trimming, in order and with nothing between them;
\* the number of <p> elements is the number of non-blank lines, and
\* "hello\nworld" gives the string of the scenario.
C9_HtmlParagraphs ==
    fmtLog.format = "HTML" =>
        \A i \in 1..Len(fmtLog.calls) :
            LET out == fmtLog.calls[i].out IN
            /\ out = DivOpen \o Paragraphs(NonBlankLines(fmtLog.text)) \o DivClose
            /\ ParagraphCount(fmtLog.text, out) = Len(NonBlankLines(fmtLog.text))
            /\ fmtLog.text = U("hello\nworld") =>
                 out = U("<div class=\"converted-content\">\n<p>hello</p><p>world</p>\n</div>")

\* C9 happens: HTML was asked for a text with a blank line between two
\* non-blank ones.
C9_Witness ==
    /\ fmtLog.format = "HTML"
    /\ fmtLog.text = U(" x \n\n\t\ny")
    /\ Len(fmtLog.calls) >= 1
    /\ Len(NonBlankLines(fmtLog.text)) = 2

(***************************************************************************)
(* Properties of PDF generation (specification SpecPdf).                   *)
(***************************************************************************)

\* The body lines drawn so far.
BodyLines == SelectSeq(pdf.drawn, LAMBDA d : d.kind = "line")

\* y is strictly between margin and pageHeight - margin.
InsideContentArea(y) ==
    /\ y > margin
    /\ y * PageHeightDen < PageHeightNum - margin * PageHeightDen

\* The number of lines that fit on page 1, from y = 30 in steps of 6.
FirstPageCapacity ==
    Cardinality({ k \in 0..MaxLines : (FirstLineY + k * LineHeight) * PageHeightDen
                                        <= PageHeightNum - margin * PageHeightDen })

\* C6: the first body line is at y = 30 on page 1; each next line is 6 lower
\* on the same page, or at y = 20 on a new page when 6 lower would be beyond
\* pageHeight - 15; every line is drawn strictly inside (margin, pageHeight -
\* margin); and a text of more lines than fit on page 1 gives more than one page.
C6_PdfPagination ==
    pdf.pc # "idle" =>
        LET body == BodyLines IN
        /\ \A k \in 1..Len(body) : InsideContentArea(body[k].y)
        /\ Len(body) >= 1 => (body[1].page = 1 /\ body[1].y = FirstLineY)
        /\ \A k \in 2..Len(body) :
             IF (body[k - 1].y + LineHeight) * PageHeightDen
                    > PageHeightNum - margin * PageHeightDen
             THEN body[k].page = body[k - 1].page + 1 /\ body[k].y = NewPageY
             ELSE body[k].page = body[k - 1].page /\ body[k].y = body[k - 1].y + LineHeight
        /\ pdf.pages = (IF body = <<>> THEN 1 ELSE body[Len(body)].page)
        /\ (pdf.pc = "done" /\ pdf.lines > FirstPageCapacity) => pdf.pages > 1

\* C6 happens: a text that fills two pages and starts a third has been laid out.
C6_Witness ==
    /\ pdf.pc = "done"
    /\ pdf.lines > FirstPageCapacity
    /\ pdf.pages = 3
    /\ Len(BodyLines) = pdf.lines

(***************************************************************************)
(* Properties of EPUB extraction (specification SpecEpubIn).               *)
(***************************************************************************)

\* The paths of the sorted htmlFiles, in the order they are concatenated.
OutputPaths == [k \in 1..Len(epubIn.htmlFiles) |-> epubIn.htmlFiles[k].name]

\* The paths processEPUB selects from the archive.
SelectedPaths ==
    { epubIn.files[k].name : k \in { j \in 1..Len(epubIn.files) :
                                       IsContentDocument(epubIn.files[j].name) } }

PushedAt(path) == CHOOSE k \in 1..Len(epubIn.pushed) : epubIn.pushed[k] = path

ContainsEpub(s) == \E k \in 1..(Len(s) - 3) : SubSeq(s, k, k + 3) = << 101, 112, 117, 98 >>

\* s ends in .epub, in any mix of cases.
EndsInDotEpub(s) ==
    /\ Len(s) >= 5
    /\ LET tail == SubSeq(s, Len(s) - 4, Len(s))
       IN  /\ tail[1] = 46
           /\ tail[2] \in { 101, 69 }
           /\ tail[3] \in { 112, 80 }
           /\ tail[4] \in { 117, 85 }
           /\ tail[5] \in { 98, 66 }

\* C8: a declared type of exactly application/pdf selects the PDF extractor
\* whatever the name; otherwise a type containing epub or a name ending in
\* .epub (in any case) selects the EPUB extractor; otherwise the bytes are
\* decoded as UTF-8, and with target Markdown or Plain Text the preview is the
\* decoded content of the file.
C8_DispatchPrecedence ==
    lastOp.op = "convert" =>
        LET file   == lastOp.file
            result == lastOp.result
            isPdf  == file.type = << 97, 112, 112, 108, 105, 99, 97, 116, 105, 111, 110, 47,
                                     112, 100, 102 >>
            isEpub == ContainsEpub(file.type) \/ EndsInDotEpub(file.name)
        IN  /\ ~result.threw
            /\ isPdf => result.extractor = "pdf"
            /\ ~isPdf /\ isEpub => result.extractor = "epub"
            /\ ~isPdf /\ ~isEpub =>
                 /\ result.extractor = "text"
                 /\ ~result.failed
                 /\ targetFormat \in { "Markdown", "Plain Text" } =>
                      result.value = TextDecode(file.bytes)

\* C8 happens: convert has been called on a file declared application/pdf
\* whose name ends in .epub, and the PDF extractor produced the preview.
C8_Witness ==
    /\ lastOp.op = "convert"
    /\ lastOp.file.type = PdfMime
    /\ lastOp.file.name = U("a.epub")
    /\ lastOp.result.extractor = "pdf"
    /\ ~lastOp.result.failed
    /\ lastOp.result.value = TwoNewlines \o U("P")

(***************************************************************************)
(* Properties of EPUB generation (specification SpecEpubOut).              *)
(***************************************************************************)

\* The first entry of the archive is the file mimetype, stored without
\* compression, holding exactly application/epub+zip.
MimetypeFirst ==
    /\ Len(zip.archive) >= 1
    /\ zip.archive[1].name = U("mimetype")
    /\ ~zip.archive[1].dir
    /\ zip.archive[1].compression = "STORE"
    /\ zip.archive[1].data = U("application/epub+zip")

\* C10 as stated: the archive has exactly five entries, the first of them
\* mimetype, stored, with content application/epub+zip.
C10_ExactlyFiveEntries ==
    zip.pc = "done" => Len(zip.archive) = 5 /\ MimetypeFirst

\* The entries of the archive that are files, in their order.
FileEntries == SelectSeq(zip.archive, LAMBDA e : ~e.dir)

\* C10 amended: the archive has exactly five file entries (mimetype, the
\* container descriptor, the content document, the package document and the
\* navigation document, in that order); its first entry is mimetype, stored
\* without compression with content exactly application/epub+zip; every other
\* entry is one of those files or the folder entry META-INF/ or OEBPS/ the
\* archive library adds, each at most once and behind mimetype.
C10_FiveFilesMimetypeFirst ==
    zip.pc = "done" =>
        /\ MimetypeFirst
        /\ [k \in 1..Len(FileEntries) |-> FileEntries[k].name]
             = << U("mimetype"), U("META-INF/container.xml"), U("OEBPS/content.xhtml"),
                  U("OEBPS/content.opf"), U("OEBPS/toc.ncx") >>
        /\ \A k \in 1..Len(zip.archive) :
             zip.archive[k].dir =>
                 /\ k > 1
                 /\ zip.archive[k].name \in { U("META-INF/"), U("OEBPS/") }
                 /\ zip.archive[k].data = <<>>
        /\ \A j, k \in 1..Len(zip.archive) :
             zip.archive[j].name = zip.archive[k].name => j = k
        /\ Len(zip.archive) \in { 5, 7 }

\* C10 happens: an EPUB has been generated from a title with an extension and
\* a content that needs escaping, by a library that writes folder entries.
C10_Witness ==
    /\ zip.pc = "done"
    /\ zip.title = U("book.epub")
    /\ zip.safeTitle = U("book")
    /\ zip.content = U("a<b>&c\n&amp;")
    /\ zip.createFolders
    /\ Len(zip.archive) = 7
    /\ zip.archive[1].name = U("mimetype")
    /\ zip.archive[2].name = U("META-INF/")

(***************************************************************************)
(* Properties of overlapping selections and conversions (specifications   *)
(* Spec and SpecNoReset).                                                  *)
(***************************************************************************)

\* C11: when a convert call has just completed with a non-empty text while a
\* file is held, the preview is the result of converting the file that is
\* held, not of a file that was selected before it.
C11_PreviewOfCurrentFile ==
    ( /\ lastOp.op = "convertSettled"
      /\ ~lastOp.result.threw
      /\ uploadedFile # <<>>
      /\ convertedContent # <<>> )
    => lastOp.call.file = uploadedFile[1]

\* C12: in a run without reset, isProcessing is true whenever a convert call
\* started by startConversion has not completed yet.
C12_ProcessingWhileInFlight == conversions # EmptyBag => isProcessing

====
